---- MODULE Spec2Model ----
(***************************************************************************)
(* Model of testdistributed_app_simple/main.py: a UDP presence beacon.     *)
(* Every process runs two control flows: receiver() in a daemon thread and *)
(* sender() in the main thread.  sender() calls get_peer_ips() each cycle. *)
(* The network, the name service, the clock and the OS scheduler are the   *)
(* environment: their answers are drawn nondeterministically.              *)
(***************************************************************************)
EXTENDS Integers, Sequences, FiniteSets, TLC

\* ------------------------------------------------------------------ bounds
\* longest list socket.getaddrinfo answers with
MaxResults == 3
\* the clock of day wraps after Day ticks (%H:%M:%S.%f keeps no date)
Day == 2
\* datagrams the kernel queues on a bound socket before dropping
BufCap == 1

\* ------------------------------------------------------- program constants
PORT == 37020
\* PERIOD and the receiver's pause, in clock ticks (seconds)
PERIOD == 2
RecvPause == 1
\* bufsize of recvfrom
RecvMax == 1024
\* len("hola desde ") and len(" sent at HH:MM:SS.mmm")
HeaderLen == 11
TrailerLen == 21

\* ------------------------------------------------------------ environment
Procs == {1, 2}
Addr(p) == IF p = 1 THEN "10.0.0.1" ELSE "10.0.0.2"
\* an address of the segment on which nothing listens
Elsewhere == "10.0.0.3"
IPs == {Addr(p) : p \in Procs} \cup {Elsewhere}
Broadcast == "<broadcast>"
\* the port the OS gives the sender's unbound socket
SrcPort(p) == 50000 + p

\* A label of n characters, each w bytes long in UTF-8.
Labels == {[n |-> 11, w |-> 1], [n |-> 1000, w |-> 1], [n |-> 507, w |-> 2]}
ServiceNames == {"", "peers"}

VARIABLES
    MESSAGE_ID,         \* p -> label                      (main.py:14)
    PEER_SERVICE_DNS,   \* p -> "" or a service name       (main.py:17)
    now,                \* the clock of day, in ticks
    spc,                \* p -> where sender() is
    peers,              \* p -> the list get_peer_ips() returned
    idx,                \* p -> position of the for loop in peers
    msg_content,        \* p -> the message of the cycle
    sleepLeft,          \* p -> ticks until time.sleep(PERIOD) returns
    lookup,             \* p -> what the last resolution asked and got
    tx,                 \* p -> the sendto calls of the cycle, in order
    slept,              \* p -> ticks spent in the current sleep
    rpc,                \* p -> where receiver() is
    buf,                \* p -> datagrams queued on the receiver's socket
    pauseLeft,          \* p -> ticks until time.sleep(1) returns
    dropped,            \* p -> whether the receiver met a datagram it could not decode
    out                 \* the lines the last step printed on standard output

cfgVars == <<MESSAGE_ID, PEER_SERVICE_DNS>>
sndVars == <<spc, peers, idx, msg_content, sleepLeft, lookup, tx, slept>>
rcvVars == <<rpc, pauseLeft, dropped>>
vars == <<MESSAGE_ID, PEER_SERVICE_DNS, now, spc, peers, idx, msg_content,
          sleepLeft, lookup, tx, slept, rpc, buf, pauseLeft, dropped, out>>

\* ------------------------------------------------------------------- text
\* log(msg): one line, stamped with the clock of day.
log(who, msg) == [ts |-> now, by |-> who, line |-> msg]

\* Presence without the time of line 85.
Presence_NoTime(id, t) == [kind |-> "greeting", id |-> id, t |-> 0, bytes |-> 0]

\* f"hola desde {MESSAGE_ID} sent at {current_time}"
Presence(id, t) == [kind |-> "presence", id |-> id, t |-> t, bytes |-> 0]
NoText == [kind |-> "none", id |-> [n |-> 0, w |-> 1], t |-> 0, bytes |-> 0]

\* str.encode('utf-8'): the text and the number of bytes it takes.
EncodedSize(text) == HeaderLen + text.id.n * text.id.w + TrailerLen

\* encode of a message that lines 85-86, moved into the for loop, rebuild
\* before each sendto.
encode_Rebuilt(text) ==
    [text |-> [text EXCEPT !.t = now], size |-> EncodedSize(text), utf8 |-> TRUE]

encode(text) == [text |-> text, size |-> EncodedSize(text), utf8 |-> TRUE]

\* recvfrom(bufsize): at most bufsize bytes of the datagram, the rest is lost.
recvfrom(data, bufsize) ==
    IF data.size <= bufsize THEN data ELSE [data EXCEPT !.size = bufsize]

\* Whether the first k bytes of the encoding of text end inside a character.
SplitsCharacter(text, k) ==
    /\ k > HeaderLen
    /\ k < HeaderLen + text.id.n * text.id.w
    /\ (k - HeaderLen) % text.id.w # 0

\* bytes.decode('utf-8'): the text, a proper prefix of it when the datagram
\* was cut, or UnicodeDecodeError.
decode(data) ==
    IF ~data.utf8 \/ SplitsCharacter(data.text, data.size)
    THEN [ok |-> FALSE, text |-> NoText]
    ELSE IF data.size = EncodedSize(data.text)
    THEN [ok |-> TRUE, text |-> data.text]
    ELSE [ok |-> TRUE,
          text |-> [data.text EXCEPT !.kind = "prefix", !.bytes = data.size]]

\* ------------------------------------------------------------ get_peer_ips
HostAnswers(p) == {[ok |-> TRUE, ip |-> Addr(p)], [ok |-> FALSE, ip |-> ""]}

SeqsUpTo(S, n) == UNION {[1..k -> S] : k \in 0..n}
DnsAnswers ==
    {[ok |-> TRUE, list |-> l] : l \in SeqsUpTo(IPs, MaxResults)}
        \cup {[ok |-> FALSE, list |-> <<>>]}

\* CollectIps without the test of line 34.
RECURSIVE CollectIps_NoFilter(_, _, _, _)
CollectIps_NoFilter(results, my_ip, k, ips) ==
    IF k > Len(results) THEN ips
    ELSE CollectIps_NoFilter(results, my_ip, k + 1, ips \cup {results[k]})

\* lines 31-35: the loop over the results
RECURSIVE CollectIps(_, _, _, _)
CollectIps(results, my_ip, k, ips) ==
    IF k > Len(results) THEN ips
    ELSE CollectIps(results, my_ip, k + 1,
                    IF results[k] # my_ip THEN ips \cup {results[k]} ELSE ips)

\* ListsOf for ips collected in a list instead of a set: an address that the
\* lookup returned twice is in it twice.
ListsOf_Repeating(S) ==
    IF S = {} THEN {<<>>}
    ELSE {l \in [1..Cardinality(S) + 1 -> S] : \A a \in S : \E k \in DOMAIN l : l[k] = a}

\* list(ips): the elements of the set, each once, in an order the set decides
ListsOf(S) ==
    {l \in [1..Cardinality(S) -> S] : \A a \in S : \E k \in DOMAIN l : l[k] = a}

\* get_peer_ips with the test of line 21 moved after the lookups.
get_peer_ips_LookupFirst(p, name, host, dns) ==
    IF ~host.ok \/ ~dns.ok
    THEN [ips |-> {}, lines |-> <<log(p, <<"Error resolving peers from", name, "lookup">>)>>]
    ELSE IF name = "" THEN [ips |-> {Broadcast}, lines |-> <<>>]
    ELSE [ips |-> CollectIps(dns.list, host.ip, 1, {}), lines |-> <<>>]

\* get_peer_ips falling back to broadcast when a lookup raises.
get_peer_ips_FallbackBroadcast(p, name, host, dns) ==
    IF name = "" THEN [ips |-> {Broadcast}, lines |-> <<>>]
    ELSE IF ~host.ok \/ ~dns.ok
    THEN [ips |-> {Broadcast},
          lines |-> <<log(p, <<"Error resolving peers from", name, "lookup">>)>>]
    ELSE [ips |-> CollectIps(dns.list, host.ip, 1, {}), lines |-> <<>>]

\* get_peer_ips answering from the list of the cycle before when it has one.
get_peer_ips_Cached(p, name, host, dns) ==
    IF peers[p] # <<>>
    THEN [ips |-> {peers[p][k] : k \in DOMAIN peers[p]}, lines |-> <<>>]
    ELSE IF name = "" THEN [ips |-> {Broadcast}, lines |-> <<>>]
    ELSE IF ~host.ok \/ ~dns.ok
    THEN [ips |-> {}, lines |-> <<log(p, <<"Error resolving peers from", name, "lookup">>)>>]
    ELSE [ips |-> CollectIps(dns.list, host.ip, 1, {}), lines |-> <<>>]

\* get_peer_ips treating an empty result of the loop as a failed lookup.
get_peer_ips_EmptyIsError(p, name, host, dns) ==
    IF name = "" THEN [ips |-> {Broadcast}, lines |-> <<>>]
    ELSE IF ~host.ok \/ ~dns.ok \/ CollectIps(dns.list, host.ip, 1, {}) = {}
    THEN [ips |-> {}, lines |-> <<log(p, <<"Error resolving peers from", name, "lookup">>)>>]
    ELSE [ips |-> CollectIps(dns.list, host.ip, 1, {}), lines |-> <<>>]

\* get_peer_ips(): the set of addresses to return (before list()) and the
\* lines logged, given the two lookups' answers.
get_peer_ips(p, name, host, dns) ==
    IF name = "" THEN [ips |-> {Broadcast}, lines |-> <<>>]
    ELSE IF ~host.ok
    THEN [ips |-> {}, lines |-> <<log(p, <<"Error resolving peers from", name, "gethostbyname">>)>>]
    ELSE IF ~dns.ok
    THEN [ips |-> {}, lines |-> <<log(p, <<"Error resolving peers from", name, "getaddrinfo">>)>>]
    ELSE [ips |-> CollectIps(dns.list, host.ip, 1, {}), lines |-> <<>>]

\* What a resolution asked and got, kept for the properties.
Lookup(name, host, dns) ==
    [status |-> IF name = "" THEN "unset"
                ELSE IF ~host.ok THEN "host_error"
                ELSE IF ~dns.ok THEN "dns_error" ELSE "ok",
     my_ip |-> IF name # "" /\ host.ok THEN host.ip ELSE "",
     addrs |-> IF name # "" /\ host.ok /\ dns.ok
               THEN {dns.list[k] : k \in DOMAIN dns.list} ELSE {}]
NoLookup == [status |-> "none", my_ip |-> "", addrs |-> {}]

\* ------------------------------------------------------------------- Init
\* The state after the module's top level ran: the configuration is read from
\* the environment and no thread has run yet.  senders are the processes in
\* which sender() is started, receivers those in which receiver() is.
InitOf(senders, receivers) ==
    /\ MESSAGE_ID \in [Procs -> Labels]
    /\ PEER_SERVICE_DNS \in [Procs -> ServiceNames]
    /\ \A p \in Procs \ senders :
          MESSAGE_ID[p] = [n |-> 11, w |-> 1] /\ PEER_SERVICE_DNS[p] = ""
    /\ now = 0
    /\ spc = [p \in Procs |-> IF p \in senders THEN "start" ELSE "off"]
    /\ peers = [p \in Procs |-> <<>>]
    /\ idx = [p \in Procs |-> 0]
    /\ msg_content = [p \in Procs |-> NoText]
    /\ sleepLeft = [p \in Procs |-> 0]
    /\ lookup = [p \in Procs |-> NoLookup]
    /\ tx = [p \in Procs |-> <<>>]
    /\ slept = [p \in Procs |-> 0]
    /\ rpc = [p \in Procs |-> IF p \in receivers THEN "start" ELSE "off"]
    /\ buf = [p \in Procs |-> <<>>]
    /\ pauseLeft = [p \in Procs |-> 0]
    /\ dropped = [p \in Procs |-> FALSE]
    /\ out = <<>>

\* python main.py in process 1: both threads
Init == InitOf({1}, {1})

\* ---------------------------------------------------------------- network
\* A receiver's socket takes datagrams once bound, as long as its queue has room.
Bound(p) == rpc[p] \in {"recv", "pause"}
Listening(p) == Bound(p) /\ Len(buf[p]) < BufCap

\* The processes a datagram for (ip, PORT) can reach.
Reach(ip) ==
    {q \in Procs : Listening(q) /\ (ip = Broadcast \/ ip = Addr(q))}

\* UDP: each process the datagram can reach gets it or not.
Delivered(dgram, to) ==
    [q \in Procs |-> IF q \in to THEN Append(buf[q], dgram) ELSE buf[q]]

\* ----------------------------------------------------------------- sender
\* SenderStart with the main thread waiting for receiver() to have bound or
\* given up before it calls sender().
SenderStart_AfterBind(p) ==
    /\ rpc[p] # "start"
    /\ spc[p] = "start"
    /\ spc' = [spc EXCEPT ![p] = "resolve"]
    /\ out' = <<log(p, <<"Starting sender", MESSAGE_ID[p], PORT, PERIOD>>)>>
    /\ UNCHANGED <<cfgVars, now, peers, idx, msg_content, sleepLeft, lookup,
                   tx, slept, rcvVars, buf>>

\* lines 73-76: the socket and the first log line
SenderStart(p) ==
    /\ spc[p] = "start"
    /\ spc' = [spc EXCEPT ![p] = "resolve"]
    /\ out' = <<log(p, <<"Starting sender", MESSAGE_ID[p], PORT, PERIOD>>)>>
    /\ UNCHANGED <<cfgVars, now, peers, idx, msg_content, sleepLeft, lookup,
                   tx, slept, rcvVars, buf>>

\* AfterLoopStep with a `continue` when there are no peers.
AfterLoopStep_NoSleepWhenEmpty(l, k) ==
    IF k < Len(l) THEN "send" ELSE IF l = <<>> THEN "resolve" ELSE "sleep"

\* AfterLoopStep with a `break` after the first sendto.
AfterLoopStep_BreakAfterFirst(l, k) ==
    IF k = 0 /\ Len(l) > 0 THEN "send" ELSE "sleep"

\* Where the for loop of lines 88-93 goes with k peers done out of a list l:
\* to the next sendto, or past the loop into time.sleep(PERIOD) of line 95.
AfterLoopStep(l, k) == IF k < Len(l) THEN "send" ELSE "sleep"

\* The sender of p moves to pc: time.sleep(PERIOD) starts with it.
SenderGoes(p, pc) ==
    /\ spc' = [spc EXCEPT ![p] = pc]
    /\ sleepLeft' = [sleepLeft EXCEPT ![p] = IF pc = "sleep" THEN PERIOD ELSE @]
    /\ slept' = [slept EXCEPT ![p] = 0]

\* lines 79-86: get_peer_ips(), "No peers found.", the message of the cycle
Resolve(p) ==
    /\ spc[p] = "resolve"
    /\ \E host \in HostAnswers(p), dns \in DnsAnswers :
         LET r == get_peer_ips(p, PEER_SERVICE_DNS[p], host, dns) IN
         \E l \in ListsOf(r.ips) :
            /\ peers' = [peers EXCEPT ![p] = l]
            /\ lookup' = [lookup EXCEPT ![p] = Lookup(PEER_SERVICE_DNS[p], host, dns)]
            /\ out' = r.lines \o
                        (IF l = <<>> THEN <<log(p, <<"No peers found.">>)>> ELSE <<>>)
            /\ SenderGoes(p, AfterLoopStep(l, 0))
    /\ msg_content' = [msg_content EXCEPT ![p] = Presence(MESSAGE_ID[p], now)]
    /\ idx' = [idx EXCEPT ![p] = 0]
    /\ tx' = [tx EXCEPT ![p] = <<>>]
    /\ UNCHANGED <<cfgVars, now, rcvVars, buf>>

\* AfterSend with the try around the whole loop: the first error ends it.
AfterSend_AbortOnError(l, k, ok) ==
    IF ok /\ k < Len(l) THEN "send" ELSE "sleep"

\* AfterSend without the try: an error of sendto ends sender().
AfterSend_Raise(l, k, ok) ==
    IF ~ok THEN "dead" ELSE IF k < Len(l) THEN "send" ELSE "sleep"

\* lines 89-93: the try around one sendto; whether it raised (ok is FALSE)
\* or not, the loop goes on with the next peer.
AfterSend(l, k, ok) == AfterLoopStep(l, k)

\* lines 88-93, one iteration: sendto raises or hands the datagram to the network
Send(p) ==
    /\ spc[p] = "send"
    /\ LET ip == peers[p][idx[p] + 1]
           data == encode(msg_content[p])
           dgram == [ip |-> Addr(p), port |-> SrcPort(p), data |-> data]
       IN  \E ok \in BOOLEAN :
              /\ tx' = [tx EXCEPT ![p] =
                     Append(@, [ip |-> ip, port |-> PORT, data |-> data, ok |-> ok])]
              /\ IF ok
                 THEN /\ out' = <<>>
                      /\ \E to \in SUBSET Reach(ip) : buf' = Delivered(dgram, to)
                 ELSE /\ out' = <<log(p, <<"Error sending to", ip>>)>>
                      /\ buf' = buf
              /\ SenderGoes(p, AfterSend(peers[p], idx[p] + 1, ok))
    /\ idx' = [idx EXCEPT ![p] = @ + 1]
    /\ UNCHANGED <<cfgVars, now, peers, msg_content, lookup, rcvVars>>

\* line 95: time.sleep(PERIOD) returns once the period has passed; the cycle ends
Wake(p) ==
    /\ spc[p] = "sleep"
    /\ sleepLeft[p] = 0
    /\ spc' = [spc EXCEPT ![p] = "resolve"]
    /\ lookup' = [lookup EXCEPT ![p] = NoLookup]
    /\ tx' = [tx EXCEPT ![p] = <<>>]
    /\ out' = <<>>
    /\ UNCHANGED <<cfgVars, now, peers, idx, msg_content, sleepLeft, slept,
                   rcvVars, buf>>

\* SenderEnds with the receiver's thread not a daemon: it runs on.
SenderEnds_NotDaemon(p) ==
    /\ spc[p] \in {"start", "resolve", "send", "sleep"}
    /\ spc' = [spc EXCEPT ![p] = "ended"]
    /\ out' = <<>>
    /\ UNCHANGED <<cfgVars, now, peers, idx, msg_content, sleepLeft, lookup,
                   tx, slept, rcvVars, buf>>

\* sender() ends: an exception that nothing in lines 71-95 catches (the
\* socket calls of lines 73-74 are outside every try, and `except Exception`
\* does not catch KeyboardInterrupt).  It is the main thread's last call
\* (line 103), so the interpreter exits: the daemon thread of line 99 is
\* stopped where it is and the sockets are closed.
SenderEnds(p) ==
    /\ spc[p] \in {"start", "resolve", "send", "sleep"}
    /\ spc' = [spc EXCEPT ![p] = "ended"]
    /\ rpc' = [rpc EXCEPT ![p] = IF @ \in {"exited", "off"} THEN @ ELSE "killed"]
    /\ buf' = [buf EXCEPT ![p] = <<>>]
    /\ out' = <<>>
    /\ UNCHANGED <<cfgVars, now, peers, idx, msg_content, sleepLeft, lookup,
                   tx, slept, pauseLeft, dropped>>

\* --------------------------------------------------------------- receiver
\* Bind without the return of line 59: the loop starts on the unbound socket.
Bind_NoReturn(p) ==
    /\ rpc[p] = "start"
    /\ rpc' = [rpc EXCEPT ![p] = "recv"]
    /\ \/ out' = <<log(p, <<"Listening for UDP messages on port", PORT>>)>>
       \/ out' = <<log(p, <<"Error binding receiver">>),
                   log(p, <<"Listening for UDP messages on port", PORT>>)>>
    /\ UNCHANGED <<cfgVars, now, sndVars, buf, pauseLeft, dropped>>

\* lines 48-61: the socket, bind, and "Listening" or "Error binding"
Bind(p) ==
    /\ rpc[p] = "start"
    /\ \/ /\ rpc' = [rpc EXCEPT ![p] = "recv"]
          /\ out' = <<log(p, <<"Listening for UDP messages on port", PORT>>)>>
       \/ /\ rpc' = [rpc EXCEPT ![p] = "exited"]
          /\ out' = <<log(p, <<"Error binding receiver">>)>>
    /\ UNCHANGED <<cfgVars, now, sndVars, buf, pauseLeft, dropped>>

\* OnReceiveError with the try around the loop instead of inside it.
OnReceiveError_LeavesLoop(p) ==
    /\ out' = <<log(p, <<"Error receiving">>)>>
    /\ rpc' = [rpc EXCEPT ![p] = "exited"]
    /\ pauseLeft' = pauseLeft

\* OnReceiveError without the time.sleep(1) of line 69.
OnReceiveError_NoPause(p) ==
    /\ out' = <<log(p, <<"Error receiving">>)>>
    /\ rpc' = rpc
    /\ pauseLeft' = pauseLeft

\* What the except clause of lines 67-69 does.
OnReceiveError(p) ==
    /\ out' = <<log(p, <<"Error receiving">>)>>
    /\ rpc' = [rpc EXCEPT ![p] = "pause"]
    /\ pauseLeft' = [pauseLeft EXCEPT ![p] = RecvPause]

\* Handle skipping the datagrams the process sent itself.
Handle_SkipOwn(p, d) ==
    LET msg == decode(recvfrom(d.data, RecvMax)) IN
    IF d.ip = Addr(p)
    THEN /\ out' = <<>>
         /\ UNCHANGED <<rpc, pauseLeft, dropped>>
    ELSE IF msg.ok
    THEN /\ out' = <<log(p, <<"Received from", d.ip, d.port, msg.text>>)>>
         /\ UNCHANGED <<rpc, pauseLeft, dropped>>
    ELSE /\ out' = <<log(p, <<"Error receiving">>)>>
         /\ rpc' = [rpc EXCEPT ![p] = "pause"]
         /\ pauseLeft' = [pauseLeft EXCEPT ![p] = RecvPause]
         /\ dropped' = [dropped EXCEPT ![p] = TRUE]

\* lines 64-69 once recvfrom returned datagram d: decode it and log it
Handle(p, d) ==
    LET msg == decode(recvfrom(d.data, RecvMax)) IN
    IF msg.ok
    THEN /\ out' = <<log(p, <<"Received from", d.ip, d.port, msg.text>>)>>
         /\ UNCHANGED <<rpc, pauseLeft, dropped>>
    ELSE /\ OnReceiveError(p)
         /\ dropped' = [dropped EXCEPT ![p] = TRUE]

\* Receive holding a lock the sender holds from get_peer_ips() to its sleep.
Receive_UnderSenderLock(p) ==
    /\ spc[p] \notin {"resolve", "send"}
    /\ rpc[p] = "recv"
    /\ buf[p] # <<>>
    /\ Handle(p, Head(buf[p]))
    /\ buf' = [buf EXCEPT ![p] = Tail(@)]
    /\ UNCHANGED <<cfgVars, now, sndVars>>

\* lines 64-69: recvfrom returns the datagram at the head of the queue
Receive(p) ==
    /\ rpc[p] = "recv"
    /\ buf[p] # <<>>
    /\ Handle(p, Head(buf[p]))
    /\ buf' = [buf EXCEPT ![p] = Tail(@)]
    /\ UNCHANGED <<cfgVars, now, sndVars>>

\* lines 64, 67-69: recvfrom itself raises
ReceiveFails(p) ==
    /\ rpc[p] = "recv"
    /\ OnReceiveError(p)
    /\ UNCHANGED <<cfgVars, now, sndVars, buf, dropped>>

\* line 69: time.sleep(1) returns
Resume(p) ==
    /\ rpc[p] = "pause"
    /\ pauseLeft[p] = 0
    /\ rpc' = [rpc EXCEPT ![p] = "recv"]
    /\ out' = <<>>
    /\ UNCHANGED <<cfgVars, now, sndVars, buf, pauseLeft, dropped>>

\* ------------------------------------------------------------ environment
Dec(n) == IF n > 0 THEN n - 1 ELSE 0

\* One tick of the clock: every sleeping thread is a tick closer to waking.
Tick ==
    /\ now' = (now + 1) % Day
    /\ sleepLeft' = [p \in Procs |-> IF spc[p] = "sleep" THEN Dec(sleepLeft[p]) ELSE sleepLeft[p]]
    /\ slept' = [p \in Procs |->
                   IF spc[p] = "sleep" /\ sleepLeft[p] > 0 THEN slept[p] + 1 ELSE slept[p]]
    /\ pauseLeft' = [p \in Procs |-> IF rpc[p] = "pause" THEN Dec(pauseLeft[p]) ELSE pauseLeft[p]]
    /\ out' = <<>>
    /\ UNCHANGED <<cfgVars, spc, peers, idx, msg_content, lookup, tx, rpc, buf, dropped>>

\* A datagram a host that is not one of the processes sends to port PORT:
\* bytes that are not UTF-8.
ForeignData == {[text |-> NoText, size |-> 4, utf8 |-> FALSE]}

Inject(p) ==
    /\ Listening(p)
    /\ \E data \in ForeignData :
          buf' = [buf EXCEPT ![p] =
                    Append(@, [ip |-> Elsewhere, port |-> PORT, data |-> data])]
    /\ out' = <<>>
    /\ UNCHANGED <<cfgVars, now, sndVars, rcvVars>>

\* ------------------------------------------------------------------- Next
Next ==
    \/ \E p \in Procs : SenderStart(p)
    \/ \E p \in Procs : Resolve(p)
    \/ \E p \in Procs : Send(p)
    \/ \E p \in Procs : Wake(p)
    \/ \E p \in Procs : Bind(p)
    \/ \E p \in Procs : Receive(p)
    \/ \E p \in Procs : ReceiveFails(p)
    \/ \E p \in Procs : Resume(p)
    \/ \E p \in Procs : Inject(p)
    \/ Tick

Spec == Init /\ [][Next]_vars

\* The sender's thread and the receiver's thread of p.
SenderStep(p) == SenderStart(p) \/ Resolve(p) \/ Send(p) \/ Wake(p)
ReceiverStep(p) == Bind(p) \/ Receive(p) \/ ReceiveFails(p) \/ Resume(p)

\* The threads that were started are scheduled, time passes, blocking calls
\* return, and a datagram waiting on the socket is not kept from recvfrom for
\* ever.  senders and receivers are as in InitOf.
FairnessOf(senders, receivers) ==
    /\ WF_vars(Tick)
    /\ \A p \in senders : WF_vars(SenderStep(p))
    /\ \A p \in receivers : WF_vars(Bind(p) \/ Resume(p)) /\ SF_vars(Receive(p))

Fairness == FairnessOf({1}, {1})

LiveSpec == Init /\ [][Next]_vars /\ Fairness

\* sender() alone in process 1 and receiver() alone in process 2, with no
\* other host on the segment.
InitPair == InitOf({1}, {2})

\* The sender of p resolves a peer list that holds the address of q, or the
\* broadcast address.
ResolveTargeting(p, q) ==
    Resolve(p) /\ \E k \in DOMAIN peers'[p] : peers'[p][k] \in {Addr(q), Broadcast}
\* A datagram the sender of p sends is delivered to the socket of q.
SendDelivering(p, q) == Send(p) /\ Len(buf'[q]) > Len(buf[q])

\* The steps of the pair: every resolution of the sender gives a peer list
\* that targets the listener, process 2.
NextPair ==
    \/ \E p \in Procs : SenderStart(p)
    \/ \E p \in Procs : ResolveTargeting(p, 2)
    \/ \E p \in Procs : Send(p)
    \/ \E p \in Procs : Wake(p)
    \/ \E p \in Procs : Bind(p)
    \/ \E p \in Procs : Receive(p)
    \/ \E p \in Procs : ReceiveFails(p)
    \/ \E p \in Procs : Resume(p)
    \/ Tick

\* Fair scheduling, and a network that does not lose every datagram.
PairSpec ==
    /\ InitPair
    /\ [][NextPair]_vars
    /\ FairnessOf({1}, {2})
    /\ SF_vars(SendDelivering(1, 2))

\* sender() alone in process 1 and receiver() alone in process 2, with any
\* answer of the name service and no other host on the segment.
NextSplit ==
    \/ \E p \in Procs : SenderStart(p)
    \/ \E p \in Procs : Resolve(p)
    \/ \E p \in Procs : Send(p)
    \/ \E p \in Procs : Wake(p)
    \/ \E p \in Procs : Bind(p)
    \/ \E p \in Procs : Receive(p)
    \/ \E p \in Procs : ReceiveFails(p)
    \/ \E p \in Procs : Resume(p)
    \/ Tick

SplitSpec == InitPair /\ [][NextSplit]_vars

\* python main.py in process 1, with sender() able to end.
NextTerm ==
    \/ Next
    \/ \E p \in Procs : SenderEnds(p)

TermSpec == Init /\ [][NextTerm]_vars

\* ================================================================ claims
Range(l) == {l[k] : k \in DOMAIN l}
Launched == {p \in Procs : spc[p] # "off"}
\* A resolution of p has returned in the cycle p is in.
Resolved(p) == lookup[p].status # "none"
ResolutionFailed(p) == lookup[p].status \in {"host_error", "dns_error"}
\* The step is the return of get_peer_ips() in p.
ResolveStep(p) == lookup[p].status = "none" /\ lookup'[p].status # "none"
\* Whether standard output just got a line of process p starting with what.
Printed(p, what) ==
    \E k \in DOMAIN out : out[k].by = p /\ out[k].line[1] = what

\* C1: with a peer-group name configured and both lookups successful,
\* get_peer_ips() returns the distinct resolved addresses without the local
\* address, each once: N-1 of N distinct addresses when the local address is
\* among them, all N otherwise, and never the local address.
C1_ResolvedMinusOwn ==
    \A p \in Procs : lookup[p].status = "ok" =>
        LET N == Cardinality(lookup[p].addrs) IN
        /\ Range(peers[p]) = lookup[p].addrs \ {lookup[p].my_ip}
        /\ Len(peers[p]) = IF lookup[p].my_ip \in lookup[p].addrs THEN N - 1 ELSE N
        /\ lookup[p].my_ip \notin Range(peers[p])

C1_Witness ==
    \E p \in Procs :
        /\ lookup[p].status = "ok"
        /\ lookup[p].my_ip \in lookup[p].addrs
        /\ Cardinality(lookup[p].addrs) = 3
        /\ Len(peers[p]) = 2

\* C2: with no peer-group name configured, every call of get_peer_ips()
\* returns the broadcast sentinel and nothing else, whatever the lookups
\* would answer, and every transmission goes to it.
C2_UnsetMeansBroadcast ==
    \A p \in Procs : PEER_SERVICE_DNS[p] = "" /\ Resolved(p) =>
        /\ peers[p] = <<Broadcast>>
        /\ \A k \in DOMAIN tx[p] : tx[p][k].ip = Broadcast /\ tx[p][k].port = PORT

C2_Witness ==
    \E p \in Procs :
        /\ PEER_SERVICE_DNS[p] = ""
        /\ spc[p] = "sleep"
        /\ peers[p] = <<Broadcast>>
        /\ Len(tx[p]) = 1

\* C3 (state part): after a failed resolution the peer list is empty, nothing
\* is transmitted in the cycle and the sender is in the cycle's sleep.
C3_FailedCycleIsNoop ==
    \A p \in Procs : ResolutionFailed(p) =>
        peers[p] = <<>> /\ tx[p] = <<>> /\ spc[p] = "sleep"

\* C3 (step part): the failed resolution prints the error with the name.
C3_FailureIsLogged ==
    \A p \in Procs : ResolveStep(p) /\ ResolutionFailed(p)' =>
        /\ Printed(p, "Error resolving peers from")'
        /\ out'[1].line[2] = PEER_SERVICE_DNS[p]

\* C3: a resolution that fails (either lookup) returns an empty peer set and
\* logs the error; the process goes on: the cycle transmits nothing and the
\* sender starts the next cycle.
C3_ResolutionFailureNotFatal ==
    /\ []C3_FailedCycleIsNoop
    /\ [][C3_FailureIsLogged]_vars
    /\ \A p \in Procs : ResolutionFailed(p) ~> (spc[p] = "resolve")

C3_Witness ==
    \E p \in Procs :
        /\ lookup[p].status = "dns_error"
        /\ Printed(p, "Error resolving peers from")
        /\ Printed(p, "No peers found.")
        /\ spc[p] = "sleep"

\* C4 (step part): a resolution returning no peers goes straight into the
\* sleep of PERIOD without a transmission, and a sleep ends only after PERIOD
\* ticks, into the next resolution.
C4_EmptyCycleStep ==
    \A p \in Procs :
        /\ ResolveStep(p) /\ peers'[p] = <<>> =>
              /\ spc'[p] = "sleep" /\ sleepLeft'[p] = PERIOD /\ slept'[p] = 0
              /\ tx'[p] = <<>> /\ buf' = buf
        /\ spc[p] = "sleep" /\ spc'[p] # "sleep" =>
              spc'[p] = "resolve" /\ slept[p] = PERIOD

\* C4: a cycle whose peer set is empty transmits nothing and still waits the
\* whole period before the next cycle.
C4_EmptyCycleSleepsFullPeriod ==
    /\ [](\A p \in Procs : Resolved(p) /\ peers[p] = <<>> =>
              tx[p] = <<>> /\ spc[p] = "sleep")
    /\ [][C4_EmptyCycleStep]_vars

C4_Witness ==
    \E p \in Procs :
        /\ lookup[p].status = "ok"
        /\ peers[p] = <<>>
        /\ spc[p] = "sleep"
        /\ slept[p] = PERIOD
        /\ sleepLeft[p] = 0

\* C5: a cycle attempts one transmission to every peer of its list, in the
\* list's order, whichever of them fail: at the end of the cycle the
\* destinations of the attempts are the peer list.
C5_SendFailureDoesNotAbort ==
    \A p \in Procs :
        /\ Resolved(p) => Len(tx[p]) = idx[p] /\ idx[p] <= Len(peers[p])
        /\ \A k \in DOMAIN tx[p] : tx[p][k].ip = peers[p][k]
        /\ Resolved(p) /\ spc[p] = "sleep" => Len(tx[p]) = Len(peers[p])

C5_Witness ==
    \E p \in Procs :
        /\ spc[p] = "sleep"
        /\ peers[p] = <<Elsewhere, Addr(2)>>
        /\ ~tx[p][1].ok
        /\ tx[p][2].ok

\* The same with the peers in the other order.
C5_WitnessOtherOrder ==
    \E p \in Procs :
        /\ spc[p] = "sleep"
        /\ peers[p] = <<Addr(2), Elsewhere>>
        /\ ~tx[p][1].ok
        /\ tx[p][2].ok

\* A datagram the receiver can decode once recvfrom cut it to RecvMax bytes.
Decodable(d) == decode(recvfrom(d.data, RecvMax)).ok
\* The step is a recvfrom of p returning the datagram at the head of its queue.
ReceiveStep(p) ==
    rpc[p] = "recv" /\ buf[p] # <<>> /\ buf'[p] = Tail(buf[p])
\* The lines o are the InboundEvent of datagram d, logged by p, and no more.
IsInboundEvent(o, p, d) ==
    /\ Len(o) = 1
    /\ o[1].by = p
    /\ o[1].line = <<"Received from", d.ip, d.port, decode(recvfrom(d.data, RecvMax)).text>>
\* Standard output just got the InboundEvent of datagram d, logged by p.
LoggedInbound(p, d) == IsInboundEvent(out, p, d)

\* C6 (step part): a bound receiver stays bound; a datagram that does not
\* decode is logged as an error and dropped, the receiver pauses; a datagram
\* that decodes is logged as one InboundEvent.
C6_ReceiveStep ==
    \A p \in Procs :
        /\ Bound(p) => Bound(p)'
        /\ ReceiveStep(p) /\ ~Decodable(Head(buf[p])) =>
              /\ rpc'[p] = "pause"
              /\ Printed(p, "Error receiving")'
              /\ ~Printed(p, "Received from")'
        /\ ReceiveStep(p) /\ Decodable(Head(buf[p])) =>
              IsInboundEvent(out', p, Head(buf[p])) /\ rpc'[p] = "recv"
        /\ buf[p] # <<>> =>
              \/ ReceiveStep(p)
              \/ buf'[p] # <<>> /\ Head(buf'[p]) = Head(buf[p])

\* A datagram the receiver of p can decode is first in its socket's queue.
ValidWaiting(p) == Bound(p) /\ buf[p] # <<>> /\ Decodable(Head(buf[p]))

\* C6: a datagram that is not UTF-8 is logged and dropped and the receive
\* loop goes on: the receiver does not stay in the pause after it, and a
\* valid datagram next in the socket's queue, whatever was dropped before
\* it, does not wait for ever: again and again either none is waiting or
\* one was just logged, and by the step part a datagram leaves the queue
\* only by being received and, when valid, logged.
C6_MalformedDoesNotStopReceiver ==
    /\ [][C6_ReceiveStep]_vars
    /\ \A p \in Procs : []<>(rpc[p] # "pause")
    /\ \A p \in Procs : []<>(~ValidWaiting(p) \/ Printed(p, "Received from"))

C6_Witness ==
    \E p \in Procs :
        /\ dropped[p]
        /\ Printed(p, "Received from")
        /\ out[1].line[4].kind = "presence"

\* C7 (step part): a failed bind prints the error and ends receiver() only;
\* an ended receiver stays ended and logs nothing.
C7_BindFailureStep ==
    \A p \in Procs :
        /\ rpc[p] = "start" /\ rpc'[p] # "start" /\ ~Printed(p, "Listening for UDP messages on port")' =>
              /\ rpc'[p] = "exited"
              /\ Printed(p, "Error binding receiver")'
              /\ spc'[p] = spc[p]
        /\ Printed(p, "Error binding receiver")' => rpc'[p] = "exited"
        /\ rpc[p] = "exited" =>
              rpc'[p] = "exited" /\ ~Printed(p, "Received from")'

\* C7: when bind fails the failure is logged, receiver() returns without
\* ever receiving, and the sender goes on with its cycles: with the receiver
\* ended, which it stays, the sender is again and again in the sleep of a
\* cycle and at the start of the next.
C7_BindFailureLeavesSender ==
    /\ [][C7_BindFailureStep]_vars
    /\ [](\A p \in Procs : rpc[p] = "exited" => buf[p] = <<>> /\ ~dropped[p])
    /\ \A p \in Procs : []<>(rpc[p] = "exited" => spc[p] = "sleep")
    /\ \A p \in Procs : []<>(rpc[p] = "exited" => spc[p] = "resolve")

C7_Witness ==
    \E p \in Procs :
        /\ rpc[p] = "exited"
        /\ spc[p] = "sleep"
        /\ Len(tx[p]) = 1 /\ tx[p][1].ok

\* C8: the sender has no terminal state, whatever fails: where sender() was
\* started it is always either able to take a step or sleeping, and it starts
\* a resolution and reaches the sleep of a cycle again and again.
C8_SenderNeverStops ==
    /\ [](\A p \in Launched :
            /\ spc[p] \in {"start", "resolve", "send", "sleep"}
            /\ (ENABLED SenderStep(p)) \/ (spc[p] = "sleep" /\ sleepLeft[p] > 0))
    /\ \A p \in Procs : []<>(spc[p] \in {"off", "resolve"})
    /\ \A p \in Procs : []<>(spc[p] \in {"off", "sleep"})

\* A cycle that met a failed send, next to a receiver that met an undecodable
\* datagram and is pausing.
C8_Witness ==
    \E p \in Procs :
        /\ spc[p] = "sleep"
        /\ \E k \in DOMAIN tx[p] : ~tx[p][k].ok
        /\ dropped[p]
        /\ rpc[p] = "pause"

\* Standard output just got an InboundEvent of p whose payload has the wire
\* format, "hola desde <identity> sent at <HH:MM:SS.mmm>", with identity id.
LoggedPresence(p, id) ==
    /\ Printed(p, "Received from")
    /\ out[1].line[4].kind = "presence"
    /\ out[1].line[4].id = id
\* The presence message of the sender, process 1, fits the receiver's buffer.
FittingLabels == {l \in Labels : EncodedSize(Presence(l, 0)) <= RecvMax}
SenderMessageFits == MESSAGE_ID[1] \in FittingLabels
\* The receiver of the listener, process 2, is bound.
ListenerBound == Bound(2)
\* The listener just logged a presence message of the sender.
ListenerLoggedPresence == LoggedPresence(2, MESSAGE_ID[1])

\* C9 as stated: a receiver bound in process 2, a sender in process 1 that
\* targets it: the listener logs an InboundEvent with the wire format.
C9_ListenerLogsPresence ==
    ListenerBound ~> ListenerLoggedPresence

\* C9 as amended: the same when the encoded message is at most RecvMax bytes.
C9_ListenerLogsPresenceThatFits ==
    (ListenerBound /\ SenderMessageFits) ~> ListenerLoggedPresence

C9_Witness ==
    /\ SenderMessageFits
    /\ ListenerLoggedPresence
    /\ out[1].line[2] = Addr(1)
    /\ spc[1] = "sleep"

\* C10 (state part): what a thread can do depends on its own position only:
\* the receiver of p can take its next step wherever the sender of p is,
\* and the sender wherever the receiver is.
C10_NeitherBlocksTheOther ==
    \A p \in Procs :
        /\ rpc[p] = "start" => ENABLED Bind(p)
        /\ rpc[p] = "recv" /\ buf[p] # <<>> => ENABLED Receive(p)
        /\ rpc[p] = "pause" /\ pauseLeft[p] = 0 => ENABLED Resume(p)
        /\ spc[p] = "start" => ENABLED SenderStart(p)
        /\ spc[p] = "resolve" => ENABLED Resolve(p)
        /\ spc[p] = "send" => ENABLED Send(p)
        /\ spc[p] = "sleep" /\ sleepLeft[p] = 0 => ENABLED Wake(p)

\* C10 (step part): a step of the receiver changes no variable of the
\* sender, and a step of the sender no variable of the receiver.
C10_NoSharedState ==
    \A p \in Procs :
        /\ rpc'[p] # rpc[p] \/ dropped'[p] # dropped[p] \/ Len(buf'[p]) < Len(buf[p]) =>
              UNCHANGED <<spc, peers, idx, msg_content, sleepLeft, lookup, tx, slept>>
        /\ spc'[p] # spc[p] \/ idx'[p] # idx[p] \/ lookup'[p] # lookup[p] =>
              UNCHANGED <<rpc, pauseLeft, dropped>>

\* C10: sender and receiver share no mutable state and neither waits for the
\* other: a sender blocked in name resolution or sleeping does not keep the
\* receiver from receiving and logging, and a receiver that is blocked,
\* pausing or gone does not keep the sender from its cycles.
C10_SenderReceiverIndependent ==
    /\ []C10_NeitherBlocksTheOther
    /\ [][C10_NoSharedState]_vars

\* The receiver logged a datagram while the sender is inside get_peer_ips().
C10_Witness ==
    \E p \in Procs :
        /\ spc[p] = "resolve"
        /\ Printed(p, "Received from")
        /\ peers[p] # <<>>

\* The sender went through a cycle's transmissions after the receiver ended.
C10_WitnessReceiverGone ==
    \E p \in Procs :
        /\ rpc[p] = "exited"
        /\ spc[p] = "sleep"
        /\ sleepLeft[p] = 0
        /\ tx[p] # <<>>

\* C11 (state part): in the cycle a sender is in, the message is the
\* presence message of its identity and every payload handed to sendto is
\* that one message: all payloads of the cycle are equal.
C11_OnePayloadPerCycle ==
    \A p \in Procs : Resolved(p) =>
        /\ msg_content[p].kind = "presence"
        /\ msg_content[p].id = MESSAGE_ID[p]
        /\ \A k \in DOMAIN tx[p] : tx[p][k].data.text = msg_content[p]
        /\ \A j, k \in DOMAIN tx[p] : tx[p][j].data = tx[p][k].data

\* C11 (step part): the message is built when the cycle resolves its peers,
\* with the clock's time of that moment, and at no other step; a datagram
\* that reaches a socket carries it.
C11_FreshPerCycle ==
    \A p \in Procs :
        /\ ResolveStep(p) => msg_content'[p] = Presence(MESSAGE_ID[p], now)
        /\ ~ResolveStep(p) => msg_content'[p] = msg_content[p]
        /\ idx'[p] # idx[p] /\ spc[p] = "send" =>
              \A q \in Procs :
                  \/ buf'[q] = buf[q]
                  \/ buf'[q][Len(buf'[q])].data.text = msg_content[p]

\* C11: a cycle builds one presence message and transmits an identical copy
\* of it to every peer; each cycle builds its message anew, with the time of
\* the cycle.
C11_SamePayloadWithinCycle ==
    /\ []C11_OnePayloadPerCycle
    /\ [][C11_FreshPerCycle]_vars

\* Two transmissions of one cycle, while a datagram of an earlier cycle, with
\* another timestamp, still waits on the listener's socket.
C11_Witness ==
    /\ spc[1] = "sleep"
    /\ Len(tx[1]) = 2
    /\ tx[1][1].ok /\ tx[1][2].ok
    /\ buf[2] # <<>>
    /\ Head(buf[2]).ip = Addr(1)
    /\ Head(buf[2]).data.text.t # msg_content[1].t

\* C12 (state part): sender() is at a sendto only with a resolved list that
\* has peers left, and in the sleep of a cycle only with none left.
C12_CycleShape ==
    \A p \in Procs :
        /\ spc[p] = "send" => Resolved(p) /\ idx[p] < Len(peers[p])
        /\ spc[p] = "sleep" =>
              Resolved(p) /\ idx[p] = Len(peers[p]) /\ Len(tx[p]) = Len(peers[p])

\* C12 (step part): the steps of one cycle in their order.
C12_CycleStep ==
    \A p \in Procs :
        \* RESOLVE: once, at the start of the cycle, before any transmission
        /\ ResolveStep(p) =>
              /\ spc[p] = "resolve" /\ tx[p] = <<>> /\ tx'[p] = <<>>
              /\ spc'[p] = IF peers'[p] = <<>> THEN "sleep" ELSE "send"
        /\ spc[p] = "resolve" /\ spc'[p] # "resolve" => ResolveStep(p)
        /\ Resolved(p) => lookup'[p] = lookup[p] \/ spc[p] = "sleep"
        \* SEND-ALL: one peer after the other, between RESOLVE and SLEEP
        /\ tx'[p] # tx[p] /\ tx'[p] # <<>> =>
              /\ spc[p] = "send" /\ Len(tx'[p]) = Len(tx[p]) + 1
              /\ spc'[p] = IF Len(tx'[p]) < Len(peers[p]) THEN "send" ELSE "sleep"
        /\ spc[p] = "send" /\ spc'[p] # "send" => spc'[p] = "sleep"
        \* SLEEP: of PERIOD, after the last peer, and then the next cycle
        /\ spc[p] # "sleep" /\ spc'[p] = "sleep" =>
              /\ sleepLeft'[p] = PERIOD
              /\ Len(tx'[p]) = Len(peers'[p])
        /\ spc[p] = "sleep" /\ spc'[p] # "sleep" =>
              spc'[p] = "resolve" /\ slept[p] = PERIOD /\ ~Resolved(p)'
        /\ spc[p] # "resolve" /\ spc'[p] = "resolve" => spc[p] \in {"start", "sleep"}
        /\ spc[p] = "sleep" /\ spc'[p] = "sleep" =>
              tx'[p] = tx[p] /\ peers'[p] = peers[p] /\ lookup'[p] = lookup[p]

\* C12: every cycle is RESOLVE, then SEND-ALL, then SLEEP: one resolution,
\* before the cycle's transmissions; the sleep of PERIOD once every peer had
\* its attempt, or at once with no peers; one sleep between two resolutions.
C12_CycleOrder ==
    /\ []C12_CycleShape
    /\ [][C12_CycleStep]_vars

\* A cycle with two peers at the end of its sleep.
C12_Witness ==
    \E p \in Procs :
        /\ spc[p] = "sleep"
        /\ Len(peers[p]) = 2
        /\ Len(tx[p]) = 2
        /\ slept[p] = PERIOD
        /\ ENABLED Wake(p)

\* The peer set the resolution of the cycle p is in has given.
Expected(p) ==
    IF lookup[p].status = "unset" THEN {Broadcast}
    ELSE IF lookup[p].status = "ok" THEN lookup[p].addrs \ {lookup[p].my_ip}
    ELSE {}
\* The destinations of the transmissions of the cycle p is in.
SentTo(p) == {tx[p][k].ip : k \in DOMAIN tx[p]}

\* C13 (state part): the list of a cycle is what its own resolution gave, the
\* cycle sends to nothing else, and by its sleep it has sent to all of it.
C13_SendsToOwnResolution ==
    \A p \in Procs : Resolved(p) =>
        /\ Range(peers[p]) = Expected(p)
        /\ SentTo(p) \subseteq Expected(p)
        /\ spc[p] = "sleep" => SentTo(p) = Expected(p)

\* C13 (step part): every resolution replaces the list, whatever it held,
\* by what the lookups of that step answered, and starts with nothing sent;
\* no other step changes the list.
C13_ResolvedAnew ==
    \A p \in Procs :
        /\ ResolveStep(p) => Range(peers'[p]) = Expected(p)' /\ tx'[p] = <<>>
        /\ ~ResolveStep(p) => peers'[p] = peers[p]

\* C13: the peer set is computed anew in every cycle: a cycle sends to the
\* result of its own resolution, all of it and nothing else, whatever the
\* cycles before resolved or failed to resolve.
C13_PeersNeverCached ==
    /\ []C13_SendsToOwnResolution
    /\ [][C13_ResolvedAnew]_vars

\* The listener's address has left the resolved set: a datagram of an earlier
\* cycle waits on the listener's socket while the cycle the sender is in
\* resolved other addresses only and has sent to them.
C13_Witness ==
    /\ spc[1] = "sleep"
    /\ lookup[1].status = "ok"
    /\ Addr(2) \notin lookup[1].addrs
    /\ SentTo(1) = {Elsewhere}
    /\ buf[2] # <<>>
    /\ Head(buf[2]).ip = Addr(1)

\* C14 (state part): a bound receiver is never at an end: it can take a
\* step, or it is in a pause that time ends.
C14_ReceiverNeverTerminal ==
    \A p \in Procs : Bound(p) =>
        \/ ENABLED ReceiverStep(p)
        \/ rpc[p] = "pause" /\ pauseLeft[p] > 0

\* C14 (step part): a failure of a receive is logged and starts a pause of
\* RecvPause; nothing but a failure takes the receiver out of recvfrom; the
\* pause lasts its time, receives nothing, and ends in recvfrom again.
C14_FailureStep ==
    \A p \in Procs :
        /\ Printed(p, "Error receiving")' =>
              rpc[p] = "recv" /\ rpc'[p] = "pause" /\ pauseLeft'[p] = RecvPause
        /\ rpc[p] = "recv" /\ rpc'[p] # "recv" =>
              rpc'[p] = "pause" /\ Printed(p, "Error receiving")'
        /\ rpc[p] = "recv" /\ rpc'[p] = "pause" /\ ~ReceiveStep(p) => buf'[p] = buf[p]
        /\ rpc[p] = "pause" /\ rpc'[p] = "pause" =>
              pauseLeft'[p] \in {pauseLeft[p], pauseLeft[p] - 1}
        /\ rpc[p] = "pause" => Len(buf'[p]) >= Len(buf[p])
        /\ rpc[p] = "pause" /\ rpc'[p] # "pause" =>
              rpc'[p] = "recv" /\ pauseLeft[p] = 0

\* C14: a failed receive is logged and followed by a pause, after which the
\* receiver is in recvfrom again; a bound receiver never ends, however many
\* receives fail: again and again it is waiting for a datagram.
C14_ReceiveFailureRetries ==
    /\ []C14_ReceiverNeverTerminal
    /\ [][C14_FailureStep]_vars
    /\ \A p \in Procs : []<>(Bound(p) => rpc[p] = "recv")

\* recvfrom itself has just failed, after an earlier failure, with a
\* datagram still waiting on the socket.
C14_Witness ==
    \E p \in Procs :
        /\ dropped[p]
        /\ Printed(p, "Error receiving")
        /\ rpc[p] = "pause"
        /\ pauseLeft[p] = RecvPause
        /\ buf[p] # <<>>

\* Both lookups of the cycle p is in answered, and every address resolved
\* for the name is the address of p itself.
OnlyOwnResolved(p) ==
    /\ lookup[p].status = "ok"
    /\ lookup[p].addrs = {lookup[p].my_ip}

\* C15 (step part): the resolution that finds only the own address prints
\* "No peers found." and nothing else: no resolution error.
C15_OnlyOwnStep ==
    \A p \in Procs : ResolveStep(p) /\ OnlyOwnResolved(p)' =>
        /\ out' = <<log(p, <<"No peers found.">>)>>
        /\ ~Printed(p, "Error resolving peers from")'
        /\ spc'[p] = "sleep" /\ sleepLeft'[p] = PERIOD

\* C15: when every resolved address is the own address, get_peer_ips()
\* returns an empty list without taking the error path: no resolution error
\* is logged and the cycle is a cycle without peers, which sends nothing.
C15_OnlyOwnIsNotAnError ==
    /\ [](\A p \in Procs : OnlyOwnResolved(p) =>
              /\ peers[p] = <<>> /\ tx[p] = <<>> /\ spc[p] = "sleep"
              /\ ~ResolutionFailed(p)
              /\ ~Printed(p, "Error resolving peers from"))
    /\ [][C15_OnlyOwnStep]_vars

C15_Witness ==
    \E p \in Procs :
        /\ OnlyOwnResolved(p)
        /\ lookup[p].my_ip = Addr(p)
        /\ out = <<log(p, <<"No peers found.">>)>>
        /\ spc[p] = "sleep"

\* The InboundEvents among the lines o.
InboundEvents(o) == {k \in DOMAIN o : o[k].line[1] = "Received from"}

\* C16 (step part): a recvfrom that returns a datagram which decodes prints
\* one InboundEvent, with the datagram's source address and port and the
\* decoded text, whoever sent it and whatever the text is, and leaves the
\* receiver as it was; one that returns a datagram which does not decode
\* prints none; no other step prints one, and none takes a datagram from
\* the queue.
C16_InboundEventStep ==
    \A p \in Procs :
        /\ ReceiveStep(p) /\ Decodable(Head(buf[p])) =>
              /\ Cardinality(InboundEvents(out')) = 1
              /\ out'[1].by = p
              /\ out'[1].line[2] = Head(buf[p]).ip
              /\ out'[1].line[3] = Head(buf[p]).port
              /\ out'[1].line[4] = decode(recvfrom(Head(buf[p]).data, RecvMax)).text
              /\ rpc'[p] = rpc[p] /\ pauseLeft'[p] = pauseLeft[p]
        /\ ReceiveStep(p) /\ ~Decodable(Head(buf[p])) => InboundEvents(out') = {}
        /\ (\A q \in Procs : ~ReceiveStep(q)) => InboundEvents(out') = {}
        /\ Len(buf'[p]) < Len(buf[p]) => ReceiveStep(p)

\* C16: every datagram the receiver receives and decodes gives exactly one
\* InboundEvent with its source address, source port and decoded payload,
\* also when the process itself sent it; one that does not decode gives
\* none; the receiver keeps nothing of a datagram.
C16_OneInboundEventPerDatagram ==
    [][C16_InboundEventStep]_vars

\* The receiver logged the broadcast of its own process: the source is the
\* process's address and its sender's port, the payload the sender's message.
C16_Witness ==
    \E p \in Procs :
        /\ Cardinality(InboundEvents(out)) = 1
        /\ out[1].by = p
        /\ out[1].line[2] = Addr(p)
        /\ out[1].line[3] = SrcPort(p)
        /\ out[1].line[4] = msg_content[p]
        /\ buf[p] = <<>>

\* C17 (state part): the attempts of a cycle go to different addresses, all
\* to PORT; by the sleep there is one attempt for each address of the
\* resolved set, failed or not, and one in all when no name is configured.
C17_AttemptsOfCycle ==
    \A p \in Procs : Resolved(p) =>
        /\ \A j, k \in DOMAIN tx[p] : j # k => tx[p][j].ip # tx[p][k].ip
        /\ \A k \in DOMAIN tx[p] : tx[p][k].port = PORT
        /\ spc[p] = "sleep" =>
              /\ Len(tx[p]) = Cardinality(Expected(p))
              /\ lookup[p].status = "unset" => Len(tx[p]) = 1

\* C17 (step part): an attempt, failed or not, moves the cycle on to the
\* next peer; the receiver's log names the same port.
C17_AttemptStep ==
    \A p \in Procs :
        /\ Len(tx'[p]) > Len(tx[p]) =>
              /\ idx'[p] = idx[p] + 1
              /\ tx'[p][idx'[p]].ip = peers[p][idx'[p]]
        /\ Printed(p, "Listening for UDP messages on port")' =>
              out'[1].line[2] = PORT

\* C17: a cycle makes exactly one attempt for each distinct address of its
\* peer set, to PORT: none twice, though the lookup may return an address
\* several times and an attempt may fail; exactly one with the broadcast
\* address.
C17_OneAttemptPerEndpoint ==
    /\ []C17_AttemptsOfCycle
    /\ [][C17_AttemptStep]_vars

\* A cycle over two resolved peers whose two attempts both failed: it made
\* just these two.
C17_Witness ==
    \E p \in Procs :
        /\ spc[p] = "sleep"
        /\ lookup[p].status = "ok"
        /\ Cardinality(Expected(p)) = 2
        /\ Len(tx[p]) = 2
        /\ ~tx[p][1].ok /\ ~tx[p][2].ok

\* C18 (state part): while the receiver of a process has not bound, or has
\* failed to, the sender of the process goes on as it would otherwise, and
\* no datagram is queued for the process.
C18_SenderDoesNotWaitForBind ==
    \A p \in Launched : rpc[p] \in {"start", "exited"} =>
        /\ (ENABLED SenderStep(p)) \/ (spc[p] = "sleep" /\ sleepLeft[p] > 0)
        /\ buf[p] = <<>>

\* C18 (step part): a step taken while the receiver is not bound queues no
\* datagram for the process and logs no InboundEvent for it, whatever is
\* sent to it in that step.
C18_UnboundStep ==
    \A p \in Procs : ~Bound(p) =>
        /\ buf'[p] = <<>>
        /\ ~Printed(p, "Received from")'

\* C18: the sender does not wait for the receiver's bind: it runs its cycles
\* while the receiver is not yet bound or has failed to bind, and what is
\* sent to the process in that time is never queued, so never logged.
C18_NoStartupOrdering ==
    /\ []C18_SenderDoesNotWaitForBind
    /\ [][C18_UnboundStep]_vars

\* The sender has broadcast, successfully, and is in its sleep; the receiver
\* of the same process has not bound yet and has nothing to receive.
C18_Witness ==
    \E p \in Procs :
        /\ rpc[p] = "start"
        /\ spc[p] = "sleep"
        /\ Len(tx[p]) = 1
        /\ tx[p][1].ip = Broadcast /\ tx[p][1].ok
        /\ buf[p] = <<>>

\* The process p runs: sender() was called and has not ended.
Running(p) == spc[p] \in {"start", "resolve", "send", "sleep"}

\* C19 (state part): with receiver() returned the process runs on as long as
\* sender() does; with sender() ended the receiver is not running either:
\* it had returned before or was stopped, it can take no step and its
\* socket holds nothing.
C19_LifetimeIsTheSenders ==
    \A p \in Procs :
        /\ Running(p) /\ rpc[p] = "exited" =>
              (ENABLED SenderStep(p)) \/ (spc[p] = "sleep" /\ sleepLeft[p] > 0)
        /\ Running(p) => rpc[p] # "killed"
        /\ spc[p] = "ended" =>
              /\ rpc[p] \in {"exited", "killed"}
              /\ ~ENABLED ReceiverStep(p)
              /\ buf[p] = <<>>

\* C19 (step part): the return of receiver() leaves the sender where it is;
\* a running receiver is stopped by the end of sender() and by nothing
\* else; an ended process stays ended and prints nothing.
C19_LifetimeStep ==
    \A p \in Procs :
        /\ rpc[p] # "exited" /\ rpc'[p] = "exited" =>
              Running(p) /\ spc'[p] = spc[p]
        /\ rpc[p] # "killed" /\ rpc'[p] = "killed" =>
              Running(p) /\ spc'[p] = "ended"
        /\ Running(p) /\ spc'[p] = "ended" /\ rpc[p] \in {"start", "recv", "pause"} =>
              rpc'[p] = "killed"
        /\ spc[p] = "ended" =>
              /\ spc'[p] = "ended" /\ rpc'[p] = rpc[p]
              /\ \A k \in DOMAIN out' : out'[k].by # p

\* C19: the process lives as long as sender() runs: the return of
\* receiver() after a failed bind does not end it, the end of sender() ends
\* it and the receiver with it, and the receiver never runs after the sender.
C19_ProcessLifetime ==
    /\ []C19_LifetimeIsTheSenders
    /\ [][C19_LifetimeStep]_vars

\* sender() ended after a transmission while the receiver was bound, and the
\* receiver was stopped with it.
C19_Witness ==
    \E p \in Procs :
        /\ spc[p] = "ended"
        /\ rpc[p] = "killed"
        /\ tx[p] # <<>>
        /\ dropped[p]

\* receiver() returned after a failed bind and the sender completed a cycle
\* after it.
C19_WitnessReceiverReturned ==
    \E p \in Procs :
        /\ rpc[p] = "exited"
        /\ Running(p)
        /\ spc[p] = "resolve"
        /\ slept[p] = PERIOD

====
